---- MODULE Spec2Model ----
(***************************************************************************)
(* Model of module/commands/gdrive.py (Telegram-DMI-Bot): the /drive       *)
(* command (drive), the button handler (drive_handler) and the keyboard    *)
(* builder (get_files_keyboard).                                           *)
(*                                                                         *)
(* Strings are sequences of one-character strings; a glyph (one code       *)
(* point) is one element, named by its code point, and a text fixed        *)
(* outside gdrive.py (a translated template, the stem of a link, an item   *)
(* identifier of the drive snapshots) is kept whole as one element.        *)
(* Python values that may be a str or an int (the values of the formats    *)
(* table) are tagged records.                                              *)
(***************************************************************************)
EXTENDS Integers, Sequences, FiniteSets, TLC

VARIABLES
    drive_utils,    \* the drive snapshot the drive collaborator reads
    chat,           \* the messages the chat platform holds, by message_id
    pc,             \* position of the running handler invocation
    update,         \* the inbound event of the invocation
    query_data,     \* drive_handler local
    chat_id,        \* drive / drive_handler local
    message_id,     \* drive_handler local
    locale,         \* drive / drive_handler local
    fetched_file,   \* drive_handler local
    file_list,      \* drive / drive_handler local, get_files_keyboard parameter
    row_len,        \* get_files_keyboard parameter
    keyboard,       \* drive / drive_handler local, get_files_keyboard result
    file_d,         \* drive_handler local
    f,              \* drive_handler local: the content stream
    calls           \* collaborator calls made by the invocation, in order

vars == <<drive_utils, chat, pc, update, query_data, chat_id, message_id, locale,
          fetched_file, file_list, row_len, keyboard, file_d, f, calls>>

----------------------------------------------------------------------------
(* Python strings and values *)

\* str.replace(old, new): every non-overlapping occurrence, leftmost first
RECURSIVE Replace(_, _, _)
Replace(s, old, new) ==
    IF Len(s) < Len(old) \/ Len(old) = 0 THEN s
    ELSE IF SubSeq(s, 1, Len(old)) = old
         THEN new \o Replace(SubSeq(s, Len(old) + 1, Len(s)), old, new)
         ELSE <<Head(s)>> \o Replace(Tail(s), old, new)

\* s[-n:]
LastChars(s, n) ==
    IF Len(s) <= n THEN s ELSE SubSeq(s, Len(s) - n + 1, Len(s))

\* str.split(sep) for a one-character separator: the list of pieces
RECURSIVE Split(_, _)
Split(s, sep) ==
    IF \A i \in 1..Len(s) : s[i] # sep THEN <<s>>
    ELSE LET i == CHOOSE j \in 1..Len(s) :
                      s[j] = sep /\ \A k \in 1..(j - 1) : s[k] # sep
         IN  <<SubSeq(s, 1, i - 1)>> \o Split(SubSeq(s, i + 1, Len(s)), sep)

\* list[-1]
Last(list) == list[Len(list)]

\* the elements of a list
Range(list) == {list[i] : i \in 1..Len(list)}

PyStr(s) == [type |-> "str", s |-> s, n |-> 0]
PyInt(n) == [type |-> "int", s |-> <<>>, n |-> n]

Digits == <<"0", "1", "2", "3", "4", "5", "6", "7", "8", "9">>

\* str(n) for n >= 0
RECURSIVE IntToStr(_)
IntToStr(n) ==
    IF n < 10 THEN <<Digits[n + 1]>>
    ELSE IntToStr(n \div 10) \o <<Digits[(n % 10) + 1]>>

\* what an f-string replacement field {v} produces
Format(v) == IF v.type = "str" THEN v.s ELSE IntToStr(v.n)

IsDigit(c) == \E d \in 1..10 : Digits[d] = c

DigitValue(c) == (CHOOSE d \in 1..10 : Digits[d] = c) - 1

\* int(s) accepts a non-empty run of decimal digits, and raises otherwise
IntAccepts(s) == Len(s) > 0 /\ \A i \in 1..Len(s) : IsDigit(s[i])

RECURSIVE ParseInt(_)
ParseInt(s) ==
    IF Len(s) = 0 THEN 0
    ELSE 10 * ParseInt(SubSeq(s, 1, Len(s) - 1)) + DigitValue(s[Len(s)])

\* {**a, **b}: the later mapping wins
Merge(a, b) ==
    [k \in (DOMAIN a) \cup (DOMAIN b) |-> IF k \in DOMAIN b THEN b[k] ELSE a[k]]

\* dict.fromkeys(keys, value)
FromKeys(keys, value) == [k \in keys |-> value]

\* dict.get(key, default)
Get(d, key, default) == IF key \in DOMAIN d THEN d[key] ELSE default

----------------------------------------------------------------------------
(* Literals of gdrive.py *)

FOLDER_MIME == "application/vnd.google-apps.folder"
DOCUMENT_MIME == "application/vnd.google-apps.document"

\* "drive_file_"
DRIVE_FILE_PREFIX == <<"d", "r", "i", "v", "e", "_", "f", "i", "l", "e", "_">>

\* '0ADXK_Yx5406vUk9PVA'
ROOT_FOLDER_ID ==
    <<"0", "A", "D", "X", "K", "_", "Y", "x", "5", "4", "0", "6", "v", "U", "k",
      "9", "P", "V", "A">>

\* 5e7
SIZE_THRESHOLD == 50000000

\* the glyph literals, each followed by the space the source writes after it
GLYPH_PDF      == <<"U+1F4D5", " ">>
GLYPH_DOCUMENT == <<"U+1F4C4", " ">>
GLYPH_IMAGE    == <<"U+1F4F7", " ">>
GLYPH_ARCHIVE  == <<"U+1F4E6", " ">>
GLYPH_EXEC     == <<"U+2699", " ">>
GLYPH_CODE     == <<"U+1F4BB", " ">>
GLYPH_FOLDER   == <<"U+1F5C2", " ">>

formats ==
    LET pdf  == FromKeys({<<"p", "d", "f">>}, PyStr(GLYPH_PDF))
        num  == FromKeys({<<" ", "a">>, <<"b">>, <<"c">>}, PyInt(10))
        docs == FromKeys({<<"d", "o", "c">>, <<"d", "o", "c", "x">>, <<"t", "x", "t">>},
                         PyStr(GLYPH_DOCUMENT))
        imgs == FromKeys({<<"j", "p", "g">>, <<"p", "n", "g">>, <<"g", "i", "f">>},
                         PyStr(GLYPH_IMAGE))
        arch == FromKeys({<<"r", "a", "r">>, <<"z", "i", "p">>}, PyStr(GLYPH_ARCHIVE))
        exec == FromKeys({<<"o", "u", "t">>, <<"e", "x", "e">>}, PyStr(GLYPH_EXEC))
        code == FromKeys({<<"c">>, <<"c", "p", "p">>, <<"h">>, <<"p", "y">>,
                          <<"j", "a", "v", "a">>, <<"j", "s">>,
                          <<"h", "t", "m", "l">>, <<"p", "h", "p">>},
                         PyStr(GLYPH_CODE))
    IN  Merge(Merge(Merge(Merge(Merge(Merge(pdf, num), docs), imgs), arch), exec), code)

----------------------------------------------------------------------------
(* get_files_keyboard *)

InlineKeyboardButton(text, callback_data) ==
    [text |-> text, callback_data |-> callback_data]

\* lines 150-158: the icon of one item
FileIcon(file) ==
    IF file.mimeType = FOLDER_MIME
    THEN PyStr(GLYPH_FOLDER)
    ELSE LET file_format == Last(Split(LastChars(file.title, 5), "."))
         IN  Get(formats, file_format, PyStr(GLYPH_DOCUMENT))

\* lines 160-162
KeyboardButton(file) ==
    InlineKeyboardButton(Format(FileIcon(file)) \o <<" ">> \o file.title,
                         DRIVE_FILE_PREFIX \o file.id)

\* a builder that starts a row by the 1-based count of the item
PlaceButton_OneBasedRowStart(kb, i, rowlen, button) ==
    IF kb = <<>> \/ (i + 1) % rowlen = 0
    THEN Append(kb, <<button>>)
    ELSE [kb EXCEPT ![Len(kb)] = Append(@, button)]

\* lines 170-174: where the button of item i (counted from 0) goes
PlaceButton(kb, i, rowlen, button) ==
    IF i % rowlen = 0
    THEN Append(kb, <<button>>)
    ELSE [kb EXCEPT ![(i \div rowlen) + 1] = Append(@, button)]

\* the loop of lines 148-174, from item i (counted from 0) on
RECURSIVE KeyboardLoop(_, _, _, _)
KeyboardLoop(files, rowlen, i, kb) ==
    IF i >= Len(files) THEN kb
    ELSE KeyboardLoop(files, rowlen, i + 1,
                      PlaceButton(kb, i, rowlen, KeyboardButton(files[i + 1])))

get_files_keyboard(files, rowlen) == KeyboardLoop(files, rowlen, 0, <<>>)

----------------------------------------------------------------------------
(* The collaborators: drive service, locale lookup, chat platform *)

\* a GoogleDriveFile as the handlers read it; parents is a list of parent
\* references, fileSize a decimal string (empty when the item carries none)
GoogleDriveFile(id, title, mimeType, parents, fileSize) ==
    [id |-> id, title |-> title, mimeType |-> mimeType,
     parents |-> [i \in 1..Len(parents) |-> [id |-> parents[i]]],
     fileSize |-> fileSize,
     exportLinks |-> [pdf |-> IF mimeType = DOCUMENT_MIME
                              THEN <<"https://export/pdf/">> \o id ELSE <<>>],
     alternateLink |-> <<"https://link/">> \o id]

NoFile == GoogleDriveFile(<<>>, <<>>, "", <<>>, <<>>)

\* an optional list: list_files returns a list, or None on failure
None == [none |-> TRUE, items |-> <<>>]
Some(items) == [none |-> FALSE, items |-> items]

\* Python truth value of an optional list: None and [] are false
Truthy(list) == ~list.none /\ Len(list.items) > 0

\* drive_utils.get_file(id): the item the snapshot holds under id
get_file(id) == drive_utils.files[id]

\* drive_utils.list_files(folder_id) when the service answers: the children of
\* the folder, in the order the service lists them
list_files(folder_id) ==
    [i \in 1..Len(drive_utils.children[folder_id]) |->
        drive_utils.files[drive_utils.children[folder_id][i]]]

PLACE_HOLDER == "%placeholder%"

TextsWithPlaceHolder ==
    {"GROUP_WARNING_TEXT_ID", "DRIVE_ERROR_GFILE_TEXT_ID", "DRIVE_ERROR_TOO_BIG_TEXT_ID"}

\* get_locale(locale, text_id): the translated template, written as the text id
\* and the locale, followed by the placeholder in the templates that hold one
get_locale(loc, text_id) ==
    IF text_id \in TextsWithPlaceHolder
    THEN <<text_id, loc, PLACE_HOLDER>>
    ELSE <<text_id, loc>>

\* "/drive"
DRIVE_COMMAND == <<"/", "d", "r", "i", "v", "e">>

NoMarkup == [none |-> TRUE, inline_keyboard |-> <<>>]
InlineKeyboardMarkup(kb) == [none |-> FALSE, inline_keyboard |-> kb]

NoDocument == [content_of |-> <<>>, name |-> <<>>]

\* a message held by the chat platform
Message(cid, text, reply_markup, document) ==
    [chat_id |-> cid, text |-> text, reply_markup |-> reply_markup,
     document |-> document]

\* one entry of the invocation's trace of collaborator calls
Call(op, cid, mid, text, reply_markup) ==
    [op |-> op, chat_id |-> cid, message_id |-> mid, text |-> text,
     reply_markup |-> reply_markup]

DriveCall(op, arg) == Call(op, 0, 0, arg, NoMarkup)

PlainCall(op) == Call(op, 0, 0, <<>>, NoMarkup)

----------------------------------------------------------------------------
(* The environment: users, chats, drive snapshots *)

Users == {1, 2}

GroupChats == {-100}

\* update.message.from_user.language_code
LanguageCode(u) == IF u = 1 THEN "it" ELSE "en"

\* who can press a button of a message held by chat cid
Members(cid) == IF cid < 0 THEN Users ELSE {cid}

\* the greatest number of messages the chat platform holds
MaxMessages == 3

Id(name) == <<name>>

PDF_MIME == "application/pdf"

\* a tree: every item's first parent is the folder that lists it
TreeDrive ==
    [files |->
        (ROOT_FOLDER_ID :> GoogleDriveFile(ROOT_FOLDER_ID, <<"D", "M", "I">>, FOLDER_MIME,
                                           <<>>, <<>>)
         @@ Id("F1") :> GoogleDriveFile(Id("F1"), <<"A", "n", "n", "o", "1">>, FOLDER_MIME,
                                        <<ROOT_FOLDER_ID>>, <<>>)
         @@ Id("F2") :> GoogleDriveFile(Id("F2"), <<"E", "s", "a", "m", "i">>, FOLDER_MIME,
                                        <<Id("F1")>>, <<>>)
         @@ Id("G1") :> GoogleDriveFile(Id("G1"), <<"O", "r", "a", "r", "i">>, DOCUMENT_MIME,
                                        <<ROOT_FOLDER_ID>>, <<>>)
         @@ Id("A") :> GoogleDriveFile(Id("A"), <<"r", ".", "p", "d", "f">>, PDF_MIME,
                                       <<ROOT_FOLDER_ID>>,
                                       <<"4", "9", "9", "9", "9", "9", "9", "9">>)
         @@ Id("B") :> GoogleDriveFile(Id("B"), <<"z", "i", "p">>, PDF_MIME,
                                       <<Id("F1")>>,
                                       <<"5", "0", "0", "0", "0", "0", "0", "0">>)
         @@ Id("C") :> GoogleDriveFile(Id("C"), <<"x", ".", "b">>, PDF_MIME,
                                       <<Id("F1")>>,
                                       <<"6", "0", "0", "0", "0", "0", "0", "0">>)
         @@ Id("E") :> GoogleDriveFile(Id("E"), <<"n", ".", "t", "x", "t">>, PDF_MIME,
                                       <<Id("F2")>>, <<>>)),
     children |->
        (ROOT_FOLDER_ID :> <<Id("F1"), Id("G1"), Id("A")>>
         @@ Id("F1") :> <<Id("F2"), Id("B"), Id("C")>>
         @@ Id("F2") :> <<Id("E")>>)]

\* items shared into the root: a folder with no parent reference, and a folder
\* whose first parent reference is a folder outside the root
SharedDrive ==
    [files |->
        (ROOT_FOLDER_ID :> GoogleDriveFile(ROOT_FOLDER_ID, <<"D", "M", "I">>, FOLDER_MIME,
                                           <<>>, <<>>)
         @@ Id("S") :> GoogleDriveFile(Id("S"), <<"S", "h">>, FOLDER_MIME, <<>>, <<>>)
         @@ Id("T") :> GoogleDriveFile(Id("T"), <<"T", "w", "o">>, FOLDER_MIME,
                                       <<Id("X"), Id("S")>>, <<>>)
         @@ Id("X") :> GoogleDriveFile(Id("X"), <<"E", "x", "t">>, FOLDER_MIME,
                                       <<>>, <<>>)),
     children |->
        (ROOT_FOLDER_ID :> <<Id("S")>>
         @@ Id("S") :> <<Id("T")>>
         @@ Id("T") :> <<>>
         @@ Id("X") :> <<>>)]

\* a root that lists nothing
EmptyDrive ==
    [files |->
        (ROOT_FOLDER_ID :> GoogleDriveFile(ROOT_FOLDER_ID, <<"D", "M", "I">>, FOLDER_MIME,
                                           <<>>, <<>>)),
     children |-> (ROOT_FOLDER_ID :> <<>>)]

\* a tree with an item whose identifier holds the text "drive_file_" (here
\* followed by the identifier of the root), and a document that carries a
\* size and a file extension
PrefixDrive ==
    [files |->
        (ROOT_FOLDER_ID :> GoogleDriveFile(ROOT_FOLDER_ID, <<"D", "M", "I">>, FOLDER_MIME,
                                           <<>>, <<>>)
         @@ (DRIVE_FILE_PREFIX \o ROOT_FOLDER_ID) :>
                GoogleDriveFile(DRIVE_FILE_PREFIX \o ROOT_FOLDER_ID, <<"P", "r">>,
                                FOLDER_MIME, <<ROOT_FOLDER_ID>>, <<>>)
         @@ Id("G2") :> GoogleDriveFile(Id("G2"), <<"g", ".", "p", "d", "f">>,
                                        DOCUMENT_MIME, <<ROOT_FOLDER_ID>>,
                                        <<"4", "9", "9", "9", "9", "9", "9", "9">>)),
     children |->
        (ROOT_FOLDER_ID :> <<DRIVE_FILE_PREFIX \o ROOT_FOLDER_ID, Id("G2")>>
         @@ (DRIVE_FILE_PREFIX \o ROOT_FOLDER_ID) :> <<>>)]

DriveSnapshots == {TreeDrive, SharedDrive, EmptyDrive, PrefixDrive}

----------------------------------------------------------------------------
(* Chat platform effects.  A handler invocation runs to completion before    *)
(* the next event is taken; a collaborator call made outside the try block    *)
(* of drive_handler is modelled as returning normally.                        *)

NoUpdate == [type |-> "none", chat_id |-> 0, from_user |-> 0, data |-> <<>>,
             message_id |-> 0]

\* bot.sendMessage(chat_id, text, reply_markup)
SendMessage(cid, text, reply_markup) ==
    /\ chat' = Append(chat, Message(cid, text, reply_markup, NoDocument))
    /\ calls' = Append(calls, Call("sendMessage", cid, Len(chat) + 1, text, reply_markup))

\* bot.editMessageText(chat_id, message_id, text, reply_markup): the platform
\* replaces text and keyboard of the message the chat holds under message_id
EditMessageText(cid, mid, text, reply_markup) ==
    /\ chat' = IF mid \in 1..Len(chat) /\ chat[mid].chat_id = cid
               THEN [chat EXCEPT ![mid] = Message(cid, text, reply_markup, @.document)]
               ELSE chat
    /\ calls' = Append(calls, Call("editMessageText", cid, mid, text, reply_markup))

\* an exception no except clause catches: it leaves the handler
Raise_Uncaught(at) ==
    /\ calls' = Append(calls, DriveCall("raise", <<at>>))
    /\ pc' = "raised"

\* the statement at `at` raised: control goes to the except clause of line 119
Raise(at) ==
    /\ calls' = Append(calls, DriveCall("raise", <<at>>))
    /\ pc' = "handler:119"

\* the handler is not running
Idle == pc \in {"idle", "done"}

----------------------------------------------------------------------------
(* drive: the /drive command, lines 12-42 *)

\* lines 20-22: user u sends /drive in chat cid
Drive_Entry(u, cid) ==
    /\ Idle
    /\ Len(chat) < MaxMessages
    /\ update' = [type |-> "message", chat_id |-> cid, from_user |-> u,
                  data |-> DRIVE_COMMAND, message_id |-> 0]
    /\ calls' = <<DriveCall("check_log", <<"drive">>)>>
    /\ chat_id' = cid
    /\ locale' = LanguageCode(u)
    /\ query_data' = <<>>
    /\ message_id' = 0
    /\ fetched_file' = NoFile
    /\ file_list' = None
    /\ keyboard' = <<>>
    /\ file_d' = NoFile
    /\ f' = NoDocument
    /\ pc' = "drive:23"
    /\ UNCHANGED <<drive_utils, chat, row_len>>

\* the group branch without its return
Drive_GroupWarning_NoReturn ==
    /\ pc = "drive:23"
    /\ chat_id < 0
    /\ SendMessage(chat_id,
                   Replace(get_locale(locale, "GROUP_WARNING_TEXT_ID"),
                           <<PLACE_HOLDER>>, DRIVE_COMMAND),
                   NoMarkup)
    /\ pc' = "drive:30"
    /\ UNCHANGED <<drive_utils, update, query_data, chat_id, message_id, locale,
                   fetched_file, file_list, row_len, keyboard, file_d, f>>

\* lines 23-27: a group chat gets the warning, and the handler returns
Drive_GroupWarning ==
    /\ pc = "drive:23"
    /\ chat_id < 0
    /\ SendMessage(chat_id,
                   Replace(get_locale(locale, "GROUP_WARNING_TEXT_ID"),
                           <<PLACE_HOLDER>>, DRIVE_COMMAND),
                   NoMarkup)
    /\ pc' = "done"
    /\ UNCHANGED <<drive_utils, update, query_data, chat_id, message_id, locale,
                   fetched_file, file_list, row_len, keyboard, file_d, f>>

\* the listing requested before the chat is looked at
Drive_ListFiles_BeforeGroupCheck ==
    /\ pc = "drive:23"
    /\ \/ file_list' = Some(list_files(ROOT_FOLDER_ID))
       \/ file_list' = None
    /\ calls' = Append(calls, DriveCall("list_files", <<>>))
    /\ pc' = "drive:30"
    /\ UNCHANGED <<drive_utils, chat, update, query_data, chat_id, message_id, locale,
                   fetched_file, row_len, keyboard, file_d, f>>

\* line 29: the top-level listing, or None when the service fails
Drive_ListFiles ==
    /\ pc = "drive:23"
    /\ ~(chat_id < 0)
    /\ \/ file_list' = Some(list_files(ROOT_FOLDER_ID))
       \/ file_list' = None
    /\ calls' = Append(calls, DriveCall("list_files", <<>>))
    /\ pc' = "drive:30"
    /\ UNCHANGED <<drive_utils, chat, update, query_data, chat_id, message_id, locale,
                   fetched_file, row_len, keyboard, file_d, f>>

\* lines 30-37
Drive_SendKeyboard ==
    /\ pc = "drive:30"
    /\ Truthy(file_list)
    /\ keyboard' = get_files_keyboard(file_list.items, 3)
    /\ SendMessage(chat_id, get_locale(locale, "DRIVE_HEADER_TEXT_ID"),
                   InlineKeyboardMarkup(keyboard'))
    /\ pc' = "done"
    /\ UNCHANGED <<drive_utils, update, query_data, chat_id, message_id, locale,
                   fetched_file, file_list, row_len, file_d, f>>

\* lines 38-42
Drive_SendError ==
    /\ pc = "drive:30"
    /\ ~Truthy(file_list)
    /\ SendMessage(chat_id, get_locale(locale, "DRIVE_ERROR_DEVS_TEXT_ID"), NoMarkup)
    /\ pc' = "done"
    /\ UNCHANGED <<drive_utils, update, query_data, chat_id, message_id, locale,
                   fetched_file, file_list, row_len, keyboard, file_d, f>>

----------------------------------------------------------------------------
(* drive_handler: a button press, lines 45-122 *)

\* the locale kept from the invocation before, when there was one
Handler_Entry_KeepsLocale(u, mid, r, c) ==
    /\ Idle
    /\ Len(chat) < MaxMessages
    /\ mid \in 1..Len(chat)
    /\ ~chat[mid].reply_markup.none
    /\ u \in Members(chat[mid].chat_id)
    /\ r \in 1..Len(chat[mid].reply_markup.inline_keyboard)
    /\ c \in 1..Len(chat[mid].reply_markup.inline_keyboard[r])
    /\ update' = [type |-> "callback_query", chat_id |-> chat[mid].chat_id,
                  from_user |-> u,
                  data |-> chat[mid].reply_markup.inline_keyboard[r][c].callback_data,
                  message_id |-> mid]
    /\ query_data' = Replace(update'.data, DRIVE_FILE_PREFIX, <<>>)
    /\ chat_id' = update'.from_user
    /\ message_id' = update'.message_id
    /\ locale' = IF locale = "" THEN LanguageCode(update'.from_user) ELSE locale
    /\ fetched_file' = get_file(query_data')
    /\ calls' = <<DriveCall("get_file", query_data')>>
    /\ file_list' = None
    /\ keyboard' = <<>>
    /\ file_d' = NoFile
    /\ f' = NoDocument
    /\ pc' = "handler:62"
    /\ UNCHANGED <<drive_utils, chat, row_len>>

\* lines 53-59: user u presses button (r, c) of the keyboard of message mid
Handler_Entry(u, mid, r, c) ==
    /\ Idle
    /\ Len(chat) < MaxMessages
    /\ mid \in 1..Len(chat)
    /\ ~chat[mid].reply_markup.none
    /\ u \in Members(chat[mid].chat_id)
    /\ r \in 1..Len(chat[mid].reply_markup.inline_keyboard)
    /\ c \in 1..Len(chat[mid].reply_markup.inline_keyboard[r])
    /\ update' = [type |-> "callback_query", chat_id |-> chat[mid].chat_id,
                  from_user |-> u,
                  data |-> chat[mid].reply_markup.inline_keyboard[r][c].callback_data,
                  message_id |-> mid]
    /\ query_data' = Replace(update'.data, DRIVE_FILE_PREFIX, <<>>)
    /\ chat_id' = update'.from_user
    /\ message_id' = update'.message_id
    /\ locale' = LanguageCode(update'.from_user)
    /\ fetched_file' = get_file(query_data')
    /\ calls' = <<DriveCall("get_file", query_data')>>
    /\ file_list' = None
    /\ keyboard' = <<>>
    /\ file_d' = NoFile
    /\ f' = NoDocument
    /\ pc' = "handler:62"
    /\ UNCHANGED <<drive_utils, chat, row_len>>

\* lines 62-63: a folder: its listing, or None when the service fails
Handler_ListFiles ==
    /\ pc = "handler:62"
    /\ fetched_file.mimeType = FOLDER_MIME
    /\ \/ file_list' = Some(list_files(fetched_file.id))
       \/ file_list' = None
    /\ calls' = Append(calls, DriveCall("list_files", fetched_file.id))
    /\ pc' = "handler:65"
    /\ UNCHANGED <<drive_utils, chat, update, query_data, chat_id, message_id, locale,
                   fetched_file, row_len, keyboard, file_d, f>>

\* lines 65-71: the listing failed: edit the message, return
Handler_ListFailed ==
    /\ pc = "handler:65"
    /\ file_list.none
    /\ EditMessageText(chat_id, message_id,
                       get_locale(locale, "DRIVE_ERROR_DEVS_TEXT_ID"), NoMarkup)
    /\ pc' = "done"
    /\ UNCHANGED <<drive_utils, update, query_data, chat_id, message_id, locale,
                   fetched_file, file_list, row_len, keyboard, file_d, f>>

\* the test of lines 76-79 without the comparison with the root
HasBackButton_AnyParent(file) == Len(file.parents) > 0

\* lines 76-79
HasBackButton(file) ==
    /\ Len(file.parents) > 0
    /\ file.parents[1].id # ROOT_FOLDER_ID

\* lines 80-87
BackRow(file, loc) ==
    <<InlineKeyboardButton(get_locale(loc, "BACK_BUTTON_TEXT_TEXT_ID"),
                           DRIVE_FILE_PREFIX \o file.parents[1].id)>>

\* the folder rendered with rows of three
Handler_ShowFolder_RowsOfThree ==
    /\ pc = "handler:65"
    /\ ~file_list.none
    /\ keyboard' = IF HasBackButton(fetched_file)
                   THEN Append(get_files_keyboard(file_list.items, 3),
                               BackRow(fetched_file, locale))
                   ELSE get_files_keyboard(file_list.items, 3)
    /\ EditMessageText(chat_id, message_id, fetched_file.title \o <<":">>,
                       InlineKeyboardMarkup(keyboard'))
    /\ pc' = "handler:122"
    /\ UNCHANGED <<drive_utils, update, query_data, chat_id, message_id, locale,
                   fetched_file, file_list, row_len, file_d, f>>

\* the folder rendered without looking at whether the listing failed
Handler_ShowFolder_IgnoresFailure ==
    /\ pc = "handler:65"
    /\ keyboard' = IF HasBackButton(fetched_file)
                   THEN Append(get_files_keyboard(file_list.items, 2),
                               BackRow(fetched_file, locale))
                   ELSE get_files_keyboard(file_list.items, 2)
    /\ EditMessageText(chat_id, message_id, fetched_file.title \o <<":">>,
                       InlineKeyboardMarkup(keyboard'))
    /\ pc' = "handler:122"
    /\ UNCHANGED <<drive_utils, update, query_data, chat_id, message_id, locale,
                   fetched_file, file_list, row_len, file_d, f>>

\* lines 74-94: the keyboard of the folder, the back row, the edit
Handler_ShowFolder ==
    /\ pc = "handler:65"
    /\ ~file_list.none
    /\ keyboard' = IF HasBackButton(fetched_file)
                   THEN Append(get_files_keyboard(file_list.items, 2),
                               BackRow(fetched_file, locale))
                   ELSE get_files_keyboard(file_list.items, 2)
    /\ EditMessageText(chat_id, message_id, fetched_file.title \o <<":">>,
                       InlineKeyboardMarkup(keyboard'))
    /\ pc' = "handler:122"
    /\ UNCHANGED <<drive_utils, update, query_data, chat_id, message_id, locale,
                   fetched_file, file_list, row_len, file_d, f>>

\* the export link written over the pressed message
Handler_Document_EditsMessage ==
    /\ pc = "handler:62"
    /\ fetched_file.mimeType # FOLDER_MIME
    /\ fetched_file.mimeType = DOCUMENT_MIME
    /\ EditMessageText(chat_id, message_id,
                       Replace(get_locale(locale, "DRIVE_ERROR_GFILE_TEXT_ID"),
                               <<PLACE_HOLDER>>, fetched_file.exportLinks.pdf),
                       NoMarkup)
    /\ pc' = "handler:122"
    /\ UNCHANGED <<drive_utils, update, query_data, chat_id, message_id, locale,
                   fetched_file, file_list, row_len, keyboard, file_d, f>>

\* lines 97-101: a google document: the link to its pdf export
Handler_Document ==
    /\ pc = "handler:62"
    /\ fetched_file.mimeType # FOLDER_MIME
    /\ fetched_file.mimeType = DOCUMENT_MIME
    /\ SendMessage(chat_id,
                   Replace(get_locale(locale, "DRIVE_ERROR_GFILE_TEXT_ID"),
                           <<PLACE_HOLDER>>, fetched_file.exportLinks.pdf),
                   NoMarkup)
    /\ pc' = "handler:122"
    /\ UNCHANGED <<drive_utils, update, query_data, chat_id, message_id, locale,
                   fetched_file, file_list, row_len, keyboard, file_d, f>>

\* the else branch taken by every item that is not a folder
Handler_GetFile_AlsoDocuments ==
    /\ pc = "handler:62"
    /\ fetched_file.mimeType # FOLDER_MIME
    /\ \/ /\ file_d' = get_file(fetched_file.id)
          /\ calls' = Append(calls, DriveCall("get_file", fetched_file.id))
          /\ pc' = "handler:106"
       \/ /\ Raise("get_file")
          /\ UNCHANGED file_d
    /\ UNCHANGED <<drive_utils, chat, update, query_data, chat_id, message_id, locale,
                   fetched_file, file_list, row_len, keyboard, f>>

\* lines 103-105: a file: the second fetch
Handler_GetFile ==
    /\ pc = "handler:62"
    /\ fetched_file.mimeType # FOLDER_MIME
    /\ fetched_file.mimeType # DOCUMENT_MIME
    /\ \/ /\ file_d' = get_file(fetched_file.id)
          /\ calls' = Append(calls, DriveCall("get_file", fetched_file.id))
          /\ pc' = "handler:106"
       \/ /\ Raise("get_file")
          /\ UNCHANGED file_d
    /\ UNCHANGED <<drive_utils, chat, update, query_data, chat_id, message_id, locale,
                   fetched_file, file_list, row_len, keyboard, f>>

\* the comparison of line 106 with <= for <
BelowThreshold_Inclusive(size) == size <= SIZE_THRESHOLD

\* line 106: int(file_d['fileSize']) < 5e7
BelowThreshold(size) == size < SIZE_THRESHOLD

Handler_CheckSize ==
    /\ pc = "handler:106"
    /\ \/ /\ IntAccepts(file_d.fileSize)
          /\ pc' = IF BelowThreshold(ParseInt(file_d.fileSize))
                   THEN "handler:107" ELSE "handler:113"
          /\ UNCHANGED calls
       \/ /\ ~IntAccepts(file_d.fileSize)
          /\ Raise("fileSize")
    /\ UNCHANGED <<drive_utils, chat, update, query_data, chat_id, message_id, locale,
                   fetched_file, file_list, row_len, keyboard, file_d, f>>

\* the content stream opened, and the document sent without the chat action
Handler_GetContent_SkipsChatAction ==
    /\ pc = "handler:107"
    /\ \/ /\ f' = [content_of |-> file_d.id, name |-> fetched_file.title]
          /\ calls' = Append(calls, DriveCall("GetContentIOBuffer", file_d.id))
          /\ pc' = "handler:110"
       \/ /\ Raise("GetContentIOBuffer")
          /\ UNCHANGED f
    /\ UNCHANGED <<drive_utils, chat, update, query_data, chat_id, message_id, locale,
                   fetched_file, file_list, row_len, keyboard, file_d>>

\* lines 107-108: the content stream, named after the title
Handler_GetContent ==
    /\ pc = "handler:107"
    /\ \/ /\ f' = [content_of |-> file_d.id, name |-> fetched_file.title]
          /\ calls' = Append(calls, DriveCall("GetContentIOBuffer", file_d.id))
          /\ pc' = "handler:109"
       \/ /\ Raise("GetContentIOBuffer")
          /\ UNCHANGED f
    /\ UNCHANGED <<drive_utils, chat, update, query_data, chat_id, message_id, locale,
                   fetched_file, file_list, row_len, keyboard, file_d>>

\* line 109
Handler_ChatAction ==
    /\ pc = "handler:109"
    /\ \/ /\ calls' = Append(calls, Call("sendChatAction", chat_id, 0,
                                         <<"UPLOAD_DOCUMENT">>, NoMarkup))
          /\ pc' = "handler:110"
       \/ Raise("sendChatAction")
    /\ UNCHANGED <<drive_utils, chat, update, query_data, chat_id, message_id, locale,
                   fetched_file, file_list, row_len, keyboard, file_d, f>>

\* line 110
Handler_SendDocument ==
    /\ pc = "handler:110"
    /\ \/ /\ chat' = Append(chat, Message(chat_id, <<>>, NoMarkup, f))
          /\ calls' = Append(calls, Call("sendDocument", chat_id, Len(chat) + 1,
                                         f.name, NoMarkup))
          /\ pc' = "handler:122"
       \/ /\ Raise("sendDocument")
          /\ UNCHANGED chat
    /\ UNCHANGED <<drive_utils, update, query_data, chat_id, message_id, locale,
                   fetched_file, file_list, row_len, keyboard, file_d, f>>

\* lines 112-116: the file is too big: the link to it
Handler_SendLink ==
    /\ pc = "handler:113"
    /\ \/ /\ SendMessage(chat_id,
                         Replace(get_locale(locale, "DRIVE_ERROR_TOO_BIG_TEXT_ID"),
                                 <<PLACE_HOLDER>>, file_d.alternateLink),
                         NoMarkup)
          /\ pc' = "handler:122"
       \/ /\ Raise("sendMessage")
          /\ UNCHANGED chat
    /\ UNCHANGED <<drive_utils, update, query_data, chat_id, message_id, locale,
                   fetched_file, file_list, row_len, keyboard, file_d, f>>

\* lines 119-120
Handler_Except ==
    /\ pc = "handler:119"
    /\ calls' = Append(calls, DriveCall("log_error", <<"drive_handler">>))
    /\ pc' = "handler:122"
    /\ UNCHANGED <<drive_utils, chat, update, query_data, chat_id, message_id, locale,
                   fetched_file, file_list, row_len, keyboard, file_d, f>>

\* line 122
Handler_Answer ==
    /\ pc = "handler:122"
    /\ calls' = Append(calls, PlainCall("answer"))
    /\ pc' = "done"
    /\ UNCHANGED <<drive_utils, chat, update, query_data, chat_id, message_id, locale,
                   fetched_file, file_list, row_len, keyboard, file_d, f>>

----------------------------------------------------------------------------
(* The bot: /drive commands and button presses over a drive snapshot *)

Init ==
    /\ drive_utils \in DriveSnapshots
    /\ chat = <<>>
    /\ pc = "idle"
    /\ update = NoUpdate
    /\ query_data = <<>>
    /\ chat_id = 0
    /\ message_id = 0
    /\ locale = ""
    /\ fetched_file = NoFile
    /\ file_list = None
    /\ row_len = 2
    /\ keyboard = <<>>
    /\ file_d = NoFile
    /\ f = NoDocument
    /\ calls = <<>>

Next ==
    \/ \E u \in Users : \E cid \in {u} \cup GroupChats : Drive_Entry(u, cid)
    \/ Drive_GroupWarning
    \/ Drive_ListFiles
    \/ Drive_SendKeyboard
    \/ Drive_SendError
    \/ \E u \in Users : \E mid \in 1..Len(chat) :
           \E r \in 1..Len(chat[mid].reply_markup.inline_keyboard) :
               \E c \in 1..Len(chat[mid].reply_markup.inline_keyboard[r]) :
                   Handler_Entry(u, mid, r, c)
    \/ Handler_ListFiles
    \/ Handler_ListFailed
    \/ Handler_ShowFolder
    \/ Handler_Document
    \/ Handler_GetFile
    \/ Handler_CheckSize
    \/ Handler_GetContent
    \/ Handler_ChatAction
    \/ Handler_SendDocument
    \/ Handler_SendLink
    \/ Handler_Except
    \/ Handler_Answer

Spec == Init /\ [][Next]_vars

----------------------------------------------------------------------------
(* get_files_keyboard on its own: the inputs are the runs of consecutive     *)
(* items of a catalogue of item names, and the positive row widths            *)

\* the longest list and the greatest row width
MaxItems == 5
MaxRowLen == 4

Catalogue ==
    <<
      GoogleDriveFile(Id("k1"), <<"r", "e", "p", "o", "r", "t", ".", "p", "d", "f">>, PDF_MIME, <<ROOT_FOLDER_ID>>, <<>>),
      GoogleDriveFile(Id("k2"), <<"p", "h", "o", "t", "o", ".", "j", "p", "g">>, PDF_MIME, <<ROOT_FOLDER_ID>>, <<>>),
      GoogleDriveFile(Id("k3"), <<"n", "o", "t", "e", "s", ".", "t", "x", "t">>, PDF_MIME, <<ROOT_FOLDER_ID>>, <<>>),
      GoogleDriveFile(Id("k4"), <<"z", "i", "p">>, PDF_MIME, <<ROOT_FOLDER_ID>>, <<>>),
      GoogleDriveFile(Id("k5"), <<"x", ".", "b">>, PDF_MIME, <<ROOT_FOLDER_ID>>, <<>>),
      GoogleDriveFile(Id("k6"), <<"n", ".", " ", "a">>, PDF_MIME, <<ROOT_FOLDER_ID>>, <<>>),
      GoogleDriveFile(Id("k7"), <<"m", "a", "i", "n", ".", "c">>, PDF_MIME, <<ROOT_FOLDER_ID>>, <<>>),
      GoogleDriveFile(Id("k8"), <<"a", ".", "b", "c", "d", "e", "f", "g">>, PDF_MIME, <<ROOT_FOLDER_ID>>, <<>>),
      GoogleDriveFile(Id("k9"), <<"a", ".", "t", "a", "r", ".", "g", "z">>, PDF_MIME, <<ROOT_FOLDER_ID>>, <<>>),
      GoogleDriveFile(Id("k10"), <<"f", "i", "l", "e", ".">>, PDF_MIME, <<ROOT_FOLDER_ID>>, <<>>),
      GoogleDriveFile(Id("k11"), <<>>, PDF_MIME, <<ROOT_FOLDER_ID>>, <<>>),
      GoogleDriveFile(Id("k12"), <<"x", ".", "d", "o", "c", "x">>, PDF_MIME, <<ROOT_FOLDER_ID>>, <<>>),
      GoogleDriveFile(Id("k13"), <<"x", ".", "h", "t", "m", "l">>, PDF_MIME, <<ROOT_FOLDER_ID>>, <<>>),
      GoogleDriveFile(Id("k14"), <<"a", ".", "j", "a", "v", "a">>, PDF_MIME, <<ROOT_FOLDER_ID>>, <<>>),
      GoogleDriveFile(Id("k15"), <<"x", ".", "P", "D", "F">>, PDF_MIME, <<ROOT_FOLDER_ID>>, <<>>),
      GoogleDriveFile(Id("k16"), <<"x", ".", "p", "d", "f">>, FOLDER_MIME, <<ROOT_FOLDER_ID>>, <<>>),
      GoogleDriveFile(Id("k17"), <<"O", "r", "a", "r", "i">>, DOCUMENT_MIME, <<ROOT_FOLDER_ID>>, <<>>),
      GoogleDriveFile(Id("k18"), <<"p", "d", "f">>, PDF_MIME, <<ROOT_FOLDER_ID>>, <<>>),
      GoogleDriveFile(Id("k19"), <<"R", "E", "A", "D", "M", "E">>, PDF_MIME, <<ROOT_FOLDER_ID>>, <<>>),
      GoogleDriveFile(Id("k20"), <<"s", ".", "e", "x", "e">>, PDF_MIME, <<ROOT_FOLDER_ID>>, <<>>),
      GoogleDriveFile(Id("k21"), <<"a", ".", "o", "u", "t">>, PDF_MIME, <<ROOT_FOLDER_ID>>, <<>>),
      GoogleDriveFile(Id("k22"), <<"p", ".", "p", "n", "g">>, PDF_MIME, <<ROOT_FOLDER_ID>>, <<>>),
      GoogleDriveFile(Id("k23"), <<"g", ".", "g", "i", "f">>, PDF_MIME, <<ROOT_FOLDER_ID>>, <<>>),
      GoogleDriveFile(Id("k24"), <<"r", ".", "r", "a", "r">>, PDF_MIME, <<ROOT_FOLDER_ID>>, <<>>),
      GoogleDriveFile(Id("k25"), <<"z", ".", "z", "i", "p">>, PDF_MIME, <<ROOT_FOLDER_ID>>, <<>>),
      GoogleDriveFile(Id("k26"), <<"w", ".", "d", "o", "c">>, PDF_MIME, <<ROOT_FOLDER_ID>>, <<>>),
      GoogleDriveFile(Id("k27"), <<"m", ".", "c", "p", "p">>, PDF_MIME, <<ROOT_FOLDER_ID>>, <<>>),
      GoogleDriveFile(Id("k28"), <<"h", ".", "h">>, PDF_MIME, <<ROOT_FOLDER_ID>>, <<>>),
      GoogleDriveFile(Id("k29"), <<"s", ".", "p", "y">>, PDF_MIME, <<ROOT_FOLDER_ID>>, <<>>),
      GoogleDriveFile(Id("k30"), <<"j", ".", "j", "s">>, PDF_MIME, <<ROOT_FOLDER_ID>>, <<>>),
      GoogleDriveFile(Id("k31"), <<"p", ".", "p", "h", "p">>, PDF_MIME, <<ROOT_FOLDER_ID>>, <<>>),
      GoogleDriveFile(Id("k32"), <<"a", "b", "z", "i", "p">>, PDF_MIME, <<ROOT_FOLDER_ID>>, <<>>),
      GoogleDriveFile(Id("k33"), <<"E", "s", "a", "m", "i">>, FOLDER_MIME, <<ROOT_FOLDER_ID>>, <<>>),
      GoogleDriveFile(Id("k34"), <<"c">>, PDF_MIME, <<ROOT_FOLDER_ID>>, <<>>)
    >>

KeyboardInputs ==
    UNION {{SubSeq(Catalogue, s, s + n - 1) :
               n \in 0..(IF Len(Catalogue) - s + 1 < MaxItems
                         THEN Len(Catalogue) - s + 1 ELSE MaxItems)} :
           s \in 1..Len(Catalogue)}

\* lines 125-176
GetFilesKeyboard ==
    /\ pc = "get_files_keyboard:146"
    /\ keyboard' = get_files_keyboard(file_list.items, row_len)
    /\ pc' = "get_files_keyboard:176"
    /\ UNCHANGED <<drive_utils, chat, update, query_data, chat_id, message_id, locale,
                   fetched_file, file_list, row_len, file_d, f, calls>>

KeyboardInit ==
    /\ file_list \in {Some(l) : l \in KeyboardInputs}
    /\ row_len \in 1..MaxRowLen
    /\ keyboard = <<>>
    /\ pc = "get_files_keyboard:146"
    /\ drive_utils = EmptyDrive
    /\ chat = <<>>
    /\ update = NoUpdate
    /\ query_data = <<>>
    /\ chat_id = 0
    /\ message_id = 0
    /\ locale = ""
    /\ fetched_file = NoFile
    /\ file_d = NoFile
    /\ f = NoDocument
    /\ calls = <<>>

KeyboardNext == GetFilesKeyboard

KeyboardSpec == KeyboardInit /\ [][KeyboardNext]_vars

----------------------------------------------------------------------------
(* Properties of get_files_keyboard, under KeyboardSpec *)

KeyboardReturned == pc = "get_files_keyboard:176"

\* the button the grid holds for item i (counted from 1) of a list laid out
\* in rows of width w
ButtonOf(kb, w, i) == kb[((i - 1) \div w) + 1][((i - 1) % w) + 1]

RECURSIVE CountButtons(_)
CountButtons(kb) ==
    IF kb = <<>> THEN 0 ELSE Len(Head(kb)) + CountButtons(Tail(kb))

\* C2: for N items and row width W >= 1 the grid is the input chunked in
\* order: ceil(N/W) rows, every row of length W except possibly the last
\* (N mod W, or W when that is 0), the button at row r, column c (from 0)
\* built from item r*W + c, N buttons in all, empty only for the empty input.
C2_GridIsInputChunkedInOrder ==
    KeyboardReturned =>
        LET items == file_list.items
            N == Len(items)
            W == row_len
        IN  /\ Len(keyboard) = (N + W - 1) \div W
            /\ \A r \in 1..Len(keyboard) :
                   Len(keyboard[r]) = IF r < Len(keyboard) \/ N % W = 0 THEN W ELSE N % W
            /\ \A r \in 1..Len(keyboard) : \A c \in 1..Len(keyboard[r]) :
                   /\ (r - 1) * W + c \in 1..N
                   /\ keyboard[r][c] = KeyboardButton(items[(r - 1) * W + c])
            /\ CountButtons(keyboard) = N
            /\ (keyboard = <<>>) <=> (N = 0)

\* five items in rows of three: a full row and a last row of two
C2_Witness ==
    /\ KeyboardReturned
    /\ Len(file_list.items) = 5
    /\ row_len = 3
    /\ Len(keyboard) = 2
    /\ Len(keyboard[2]) = 2

HasDot(s) == \E i \in 1..Len(s) : s[i] = "."

\* the part of a name after its last "."
Extension(title) == Last(Split(title, "."))

\* C7: a non-folder item whose name has no "." in its trailing 5 characters,
\* or whose extension is longer than 4 characters, gets the generic document
\* glyph.
C7_NoDotOrLongExtensionGetsGeneric ==
    KeyboardReturned =>
        \A i \in 1..Len(file_list.items) :
            LET file == file_list.items[i]
            IN  ( /\ file.mimeType # FOLDER_MIME
                  /\ \/ ~HasDot(LastChars(file.title, 5))
                     \/ HasDot(file.title) /\ Len(Extension(file.title)) > 4 )
                => ButtonOf(keyboard, row_len, i).text
                       = GLYPH_DOCUMENT \o <<" ">> \o file.title

IconGlyphs ==
    {GLYPH_FOLDER, GLYPH_PDF, GLYPH_DOCUMENT, GLYPH_IMAGE, GLYPH_ARCHIVE,
     GLYPH_EXEC, GLYPH_CODE}

\* C8: the icon of every button label is a glyph of the fixed set (folder,
\* the table's categories, generic document), and a folder gets the folder
\* glyph.
C8_IconIsGlyphOfFixedSet ==
    KeyboardReturned =>
        \A i \in 1..Len(file_list.items) :
            LET file == file_list.items[i]
                text == ButtonOf(keyboard, row_len, i).text
            IN  /\ \E g \in IconGlyphs : text = g \o <<" ">> \o file.title
                /\ file.mimeType = FOLDER_MIME
                       => text = GLYPH_FOLDER \o <<" ">> \o file.title

----------------------------------------------------------------------------
(* Properties of drive and drive_handler, under Spec *)

InDrive == update.type = "message"
InHandler == update.type = "callback_query"
Returned == pc = "done"

\* the positions of the invocation's trace that hold one of the operations
CallsOf(ops) == {i \in 1..Len(calls) : calls[i].op \in ops}

ChatOutputs == {"sendMessage", "sendDocument", "editMessageText"}

\* C1: every invocation of drive_handler that has returned has acknowledged
\* the callback (callback_query.answer), whichever branch it took.
C1_EveryPressIsAnswered ==
    (InHandler /\ Returned) => CallsOf({"answer"}) # {}

IsBackRow(row) ==
    /\ Len(row) = 1
    /\ row[1].text = get_locale(locale, "BACK_BUTTON_TEXT_TEXT_ID")

\* C3: the keyboard drive_handler renders for a folder ends with a back row
\* if and only if the folder has a parent and its first parent is not the
\* root; then it is the only back row, the last row, one button, whose token
\* targets the first parent.  Otherwise no row is a back row.
C3_BackRowIffParentNotRoot ==
    ( /\ InHandler
      /\ pc \in {"handler:122", "done"}
      /\ fetched_file.mimeType = FOLDER_MIME
      /\ ~file_list.none )
    => LET markup == chat[message_id].reply_markup
           kb == markup.inline_keyboard
           childRows == (Len(file_list.items) + 1) \div 2
           backRows == {r \in 1..Len(kb) : IsBackRow(kb[r])}
           hasParent == /\ Len(fetched_file.parents) > 0
                        /\ fetched_file.parents[1].id # ROOT_FOLDER_ID
       IN  /\ ~markup.none
           /\ hasParent <=> backRows # {}
           /\ Len(kb) = childRows + Cardinality(backRows)
           /\ hasParent =>
                 /\ backRows = {Len(kb)}
                 /\ Last(kb)[1].callback_data
                        = DRIVE_FILE_PREFIX \o fetched_file.parents[1].id

\* a folder below a folder other than the root has been rendered
C3_Witness ==
    /\ InHandler /\ Returned
    /\ fetched_file.mimeType = FOLDER_MIME
    /\ ~file_list.none
    /\ Len(fetched_file.parents) > 0
    /\ fetched_file.parents[1].id # ROOT_FOLDER_ID
    /\ IsBackRow(Last(chat[message_id].reply_markup.inline_keyboard))

InFileBranch ==
    /\ InHandler
    /\ fetched_file.mimeType \notin {FOLDER_MIME, DOCUMENT_MIME}

\* the size has been read from the second fetch
SizeRead == file_d # NoFile /\ IntAccepts(file_d.fileSize)

StreamOps == {"GetContentIOBuffer", "sendChatAction", "sendDocument"}

\* C4: for a regular file the size read from the second fetch decides the
\* branch: below 50,000,000 the content is streamed and sent as a document,
\* at or above 50,000,000 one message with the direct link is sent and the
\* content stream is never read nor sendDocument called.
C4_SizeDecidesBranch ==
    InFileBranch =>
        LET size == ParseInt(file_d.fileSize)
            links == CallsOf({"sendMessage"})
            unfailed == Returned /\ CallsOf({"raise"}) = {}
        IN  /\ CallsOf(StreamOps) # {} => SizeRead /\ size < 50000000
            /\ links # {} => SizeRead /\ size >= 50000000
            /\ \A i \in links :
                   calls[i].text = <<"DRIVE_ERROR_TOO_BIG_TEXT_ID", locale>>
                                       \o file_d.alternateLink
            /\ (unfailed /\ size < 50000000) =>
                   /\ Cardinality(CallsOf({"sendDocument"})) = 1
                   /\ links = {}
            /\ (unfailed /\ size >= 50000000) =>
                   /\ Cardinality(links) = 1
                   /\ CallsOf(StreamOps) = {}

\* a file of exactly 50,000,000 bytes has been answered with the link
C4_Witness ==
    /\ InFileBranch /\ Returned
    /\ SizeRead
    /\ ParseInt(file_d.fileSize) = 50000000
    /\ CallsOf({"sendMessage"}) # {}

GroupWarningText(loc) == <<"GROUP_WARNING_TEXT_ID", loc>> \o DRIVE_COMMAND

\* C5: /drive in a group chat (negative chat id) sends the group warning and
\* returns: at no point of the invocation is list_files or get_file called,
\* and no keyboard is sent.
C5_GroupChatMakesNoDriveCall ==
    (InDrive /\ update.chat_id < 0) =>
        /\ CallsOf({"list_files", "get_file"}) = {}
        /\ \A i \in CallsOf(ChatOutputs) :
               /\ calls[i].op = "sendMessage"
               /\ calls[i].chat_id = update.chat_id
               /\ calls[i].reply_markup.none
               /\ calls[i].text = GroupWarningText(locale)
        /\ pc \in {"drive:23", "done"}
        /\ Returned => CallsOf({"sendMessage"}) # {}

\* /drive in a group chat has returned after the warning
C5_Witness ==
    /\ InDrive /\ Returned
    /\ update.chat_id < 0
    /\ Last(chat).chat_id = update.chat_id
    /\ Last(chat).text = GroupWarningText(locale)

\* C6: every invocation of drive sends exactly one chat message: the group
\* warning in a group; otherwise the "service unavailable" text when the
\* listing is None or empty; otherwise the header with the keyboard of the
\* listing in rows of 3.
C6_DriveSendsExactlyOneMessage ==
    (InDrive /\ Returned) =>
        /\ Cardinality(CallsOf(ChatOutputs \cup {"sendChatAction"})) = 1
        /\ \A i \in CallsOf(ChatOutputs) :
               LET kb == calls[i].reply_markup.inline_keyboard
                   N == Len(file_list.items)
               IN  /\ calls[i].op = "sendMessage"
                   /\ calls[i].chat_id = update.chat_id
                   /\ Last(chat) = Message(calls[i].chat_id, calls[i].text,
                                           calls[i].reply_markup, NoDocument)
                   /\ IF update.chat_id < 0
                      THEN /\ calls[i].text = GroupWarningText(locale)
                           /\ calls[i].reply_markup.none
                      ELSE IF file_list.none \/ N = 0
                      THEN /\ calls[i].text = <<"DRIVE_ERROR_DEVS_TEXT_ID", locale>>
                           /\ calls[i].reply_markup.none
                      ELSE /\ calls[i].text = <<"DRIVE_HEADER_TEXT_ID", locale>>
                           /\ ~calls[i].reply_markup.none
                           /\ Len(kb) = (N + 2) \div 3
                           /\ CountButtons(kb) = N
                           /\ \A j \in 1..N :
                                  ButtonOf(kb, 3, j) = KeyboardButton(file_list.items[j])

\* /drive in a private chat has sent the keyboard of a non-empty listing
C6_Witness ==
    /\ InDrive /\ Returned
    /\ update.chat_id >= 0
    /\ Truthy(file_list)
    /\ ~Last(chat).reply_markup.none
    /\ Len(Last(chat).reply_markup.inline_keyboard[1]) = 3

\* C9: a failure of a step of the regular-file branch does not leave the
\* handler (it goes on to the except clause, the acknowledgement and the
\* return), is reported exactly once to log_error, and no message is sent
\* to the user after it.
C9_FileBranchFailureIsLoggedOnceAndSwallowed ==
    (InHandler /\ CallsOf({"raise"}) # {}) =>
        LET k == CHOOSE i \in CallsOf({"raise"}) : TRUE
        IN  /\ InFileBranch
            /\ Cardinality(CallsOf({"raise"})) = 1
            /\ pc \in {"handler:119", "handler:122", "done"}
            /\ CallsOf({"log_error"}) = IF pc = "handler:119" THEN {} ELSE {k + 1}
            /\ \A i \in (k + 1)..Len(calls) :
                   calls[i].op \notin ChatOutputs \cup {"sendChatAction"}
            /\ Returned => /\ Len(calls) = k + 2
                           /\ Last(calls).op = "answer"

\* the document send failed, and the handler has returned
C9_Witness ==
    /\ InHandler /\ Returned
    /\ \E i \in CallsOf({"raise"}) : calls[i].text = <<"sendDocument">>
    /\ CallsOf({"log_error"}) # {}

\* C10: in the online-document and regular-file branches drive_handler never
\* calls editMessageText and no message the chat holds changes; a message
\* changes only by the editMessageText of a folder selection.
C10_OnlyFolderSelectionsEditTheView ==
    [][ /\ (InHandler' /\ fetched_file'.mimeType # FOLDER_MIME) =>
               /\ \A m \in 1..Len(chat) : chat'[m] = chat[m]
               /\ \A i \in 1..Len(calls') : calls'[i].op # "editMessageText"
        /\ (\E m \in 1..Len(chat) : chat'[m] # chat[m]) =>
               /\ InHandler'
               /\ fetched_file'.mimeType = FOLDER_MIME
               /\ Last(calls').op = "editMessageText"
      ]_vars

\* an online document was selected, and the pressed message still shows the
\* keyboard with the pressed button
C10_Witness ==
    /\ InHandler /\ Returned
    /\ fetched_file.mimeType = DOCUMENT_MIME
    /\ ~chat[message_id].reply_markup.none
    /\ \E r \in 1..Len(chat[message_id].reply_markup.inline_keyboard) :
           \E c \in 1..Len(chat[message_id].reply_markup.inline_keyboard[r]) :
               chat[message_id].reply_markup.inline_keyboard[r][c].callback_data
                   = update.data


InDocumentBranch == InHandler /\ fetched_file.mimeType = DOCUMENT_MIME

\* C11: the selection of an online document sends exactly one new message,
\* which holds the link to the pdf export of the item, and never takes the
\* transfer path (no second fetch, no content stream, no upload chat action,
\* no sendDocument), whatever else the item carries.
C11_DocumentGetsExportLinkOnly ==
    InDocumentBranch =>
        /\ CallsOf(StreamOps \cup {"editMessageText", "raise", "log_error"}) = {}
        /\ Cardinality(CallsOf({"get_file"})) = 1
        /\ pc \in {"handler:62", "handler:122", "done"}
        /\ Cardinality(CallsOf({"sendMessage"})) = IF pc = "handler:62" THEN 0 ELSE 1
        /\ \A i \in CallsOf({"sendMessage"}) :
               /\ calls[i].chat_id = update.from_user
               /\ calls[i].reply_markup.none
               /\ calls[i].text = <<"DRIVE_ERROR_GFILE_TEXT_ID", locale>>
                                      \o fetched_file.exportLinks.pdf
               /\ calls[i].message_id = Len(chat)
               /\ Last(chat) = Message(calls[i].chat_id, calls[i].text, NoMarkup,
                                       NoDocument)

\* a document that carries a size below the threshold and a name ending in
\* ".pdf" has been answered with the export link
C11_Witness ==
    /\ InDocumentBranch /\ Returned
    /\ IntAccepts(fetched_file.fileSize)
    /\ ParseInt(fetched_file.fileSize) < SIZE_THRESHOLD
    /\ CallsOf({"sendMessage"}) # {}

ServiceUnavailableText(loc) == <<"DRIVE_ERROR_DEVS_TEXT_ID", loc>>

\* the listing of the selected folder has been requested and has failed
ListingFailed ==
    /\ InHandler
    /\ fetched_file.mimeType = FOLDER_MIME
    /\ file_list.none
    /\ pc # "handler:62"

\* C12: when the listing of the selected folder fails, drive_handler edits
\* the pressed message to the "service unavailable" text without keyboard
\* and stops: one list_files call, no grid, no back row, no other message.
C12_FailedListingEditsAndStops ==
    ListingFailed =>
        /\ pc \in {"handler:65", "done"}
        /\ Cardinality(CallsOf({"list_files"})) = 1
        /\ keyboard = <<>>
        /\ CallsOf({"sendMessage", "sendDocument", "sendChatAction"}) = {}
        /\ Cardinality(CallsOf({"editMessageText"})) = IF Returned THEN 1 ELSE 0
        /\ Returned =>
               /\ Last(calls) = Call("editMessageText", update.from_user,
                                     update.message_id,
                                     ServiceUnavailableText(locale), NoMarkup)
               /\ chat[update.message_id].text = ServiceUnavailableText(locale)
               /\ chat[update.message_id].reply_markup.none

\* the listing of a folder that would have had a back row has failed
C12_Witness ==
    /\ ListingFailed /\ Returned
    /\ HasBackButton(fetched_file)
    /\ chat[update.message_id].reply_markup.none


\* the upload chat action is issued only for a file below the threshold
ChatActionOnlyBelowThreshold ==
    CallsOf({"sendChatAction"}) # {} =>
        /\ InFileBranch
        /\ SizeRead
        /\ ParseInt(file_d.fileSize) < SIZE_THRESHOLD

\* the upload chat actions issued before position i of the trace
ChatActionsBefore(i) == {j \in CallsOf({"sendChatAction"}) : j < i}

\* C13 as stated: wherever the content stream is opened or sendDocument is
\* called, exactly one upload chat action has been issued earlier in the
\* invocation; and the chat action is issued only for a file below the
\* threshold.
C13_ChatActionBeforeStreamIsOpened ==
    InHandler =>
        /\ \A i \in CallsOf({"GetContentIOBuffer", "sendDocument"}) :
               Cardinality(ChatActionsBefore(i)) = 1
        /\ ChatActionOnlyBelowThreshold

\* C13 as amended: wherever sendDocument is called, exactly one upload chat
\* action has been issued earlier in the invocation, after the content
\* stream was opened; and the chat action is issued only for a file below
\* the threshold.
C13_ChatActionBeforeDocumentIsSent ==
    InHandler =>
        /\ \A i \in CallsOf({"sendDocument"}) :
               /\ Cardinality(ChatActionsBefore(i)) = 1
               /\ calls[i].text = fetched_file.title
        /\ \A j \in CallsOf({"sendChatAction"}) :
               /\ calls[j].text = <<"UPLOAD_DOCUMENT">>
               /\ calls[j].chat_id = update.from_user
               /\ \E k \in CallsOf({"GetContentIOBuffer"}) : k < j
        /\ Cardinality(CallsOf({"sendChatAction"})) <= 1
        /\ ChatActionOnlyBelowThreshold

\* a document has been sent
C13_Witness ==
    /\ InFileBranch /\ Returned
    /\ CallsOf({"sendDocument"}) # {}
    /\ Last(chat).document = [content_of |-> fetched_file.id,
                              name |-> fetched_file.title]

\* the listing of the selected folder has been rendered
FolderRendered ==
    /\ InHandler
    /\ fetched_file.mimeType = FOLDER_MIME
    /\ ~file_list.none
    /\ pc \in {"handler:122", "done"}

\* C14: a folder selection whose listing succeeds makes exactly one edit, of
\* the pressed message, and sends nothing: the text is the title of the
\* folder and a colon, and the buttons before the back row are the children
\* the listing returned, in order, in rows of 2, each with the token of its
\* child.  An empty listing gives a keyboard without child buttons.
C14_FolderSelectionEditsPressedMessage ==
    FolderRendered =>
        LET items == file_list.items
            N == Len(items)
            childRows == (N + 1) \div 2
            shown == chat[update.message_id]
            kb == shown.reply_markup.inline_keyboard
        IN  /\ Cardinality(CallsOf({"editMessageText"})) = 1
            /\ CallsOf({"sendMessage", "sendDocument", "sendChatAction"}) = {}
            /\ \A i \in CallsOf({"editMessageText"}) :
                   /\ calls[i].chat_id = update.chat_id
                   /\ calls[i].message_id = update.message_id
                   /\ calls[i].text = shown.text
                   /\ calls[i].reply_markup = shown.reply_markup
            /\ shown.text = fetched_file.title \o <<":">>
            /\ ~shown.reply_markup.none
            /\ items = list_files(fetched_file.id)
            /\ Len(kb) >= childRows
            /\ CountButtons(SubSeq(kb, 1, childRows)) = N
            /\ \A r \in 1..childRows :
                   Len(kb[r]) = IF r < childRows \/ N % 2 = 0 THEN 2 ELSE 1
            /\ \A j \in 1..N :
                   /\ ButtonOf(kb, 2, j).callback_data = DRIVE_FILE_PREFIX \o items[j].id
                   /\ ButtonOf(kb, 2, j).text
                          = Format(FileIcon(items[j])) \o <<" ">> \o items[j].title
            /\ \A r \in (childRows + 1)..Len(kb) : IsBackRow(kb[r])

\* a folder with three children has been rendered: a row of two, a row of one
C14_Witness ==
    /\ FolderRendered /\ Returned
    /\ Len(file_list.items) = 3
    /\ Len(chat[update.message_id].reply_markup.inline_keyboard) = 2

\* a folder with an empty listing has been rendered: a keyboard, no buttons
C14_EmptyListingWitness ==
    /\ FolderRendered /\ Returned
    /\ file_list.items = <<>>
    /\ ~HasBackButton(fetched_file)
    /\ chat[update.message_id].reply_markup = InlineKeyboardMarkup(<<>>)


\* the identifier a token was rendered for: the token less its leading prefix
RenderedFor(token) == SubSeq(token, Len(DRIVE_FILE_PREFIX) + 1, Len(token))

\* the buttons of the keyboards the chat holds
ButtonsHeld ==
    UNION {UNION {Range(chat[m].reply_markup.inline_keyboard[r]) :
                     r \in 1..Len(chat[m].reply_markup.inline_keyboard)} :
              m \in 1..Len(chat)}

\* every item a folder lists has that folder as its first parent
IsTree(drv) ==
    \A folder \in DOMAIN drv.children :
        \A i \in 1..Len(drv.children[folder]) :
            LET item == drv.files[drv.children[folder][i]]
            IN  Len(item.parents) > 0 /\ item.parents[1].id = folder

\* id is reached from the root by one or more steps from a folder to an item
\* it lists
RECURSIVE BelowRoot(_, _, _)
BelowRoot(drv, id, fuel) ==
    /\ fuel > 0
    /\ id \in DOMAIN drv.files
    /\ id # ROOT_FOLDER_ID
    /\ Len(drv.files[id].parents) > 0
    /\ LET parent == drv.files[id].parents[1].id
       IN  /\ parent \in DOMAIN drv.children
           /\ id \in Range(drv.children[parent])
           /\ parent = ROOT_FOLDER_ID \/ BelowRoot(drv, parent, fuel - 1)

StrictDescendant(drv, id) == BelowRoot(drv, id, Cardinality(DOMAIN drv.files))

\* C15: over a drive tree, whatever is pressed, the folder drive_handler
\* displays is a strict descendant of the root (the root listing is never
\* displayed again), and every button a keyboard holds was rendered for an
\* item strictly below the root.
C15_NavigationStaysBelowRoot ==
    IsTree(drive_utils) =>
        /\ (InHandler /\ fetched_file.mimeType = FOLDER_MIME) =>
               /\ fetched_file.id # ROOT_FOLDER_ID
               /\ StrictDescendant(drive_utils, fetched_file.id)
        /\ \A b \in ButtonsHeld :
               StrictDescendant(drive_utils, RenderedFor(b.callback_data))

\* C17: the identifier drive_handler decodes from the token of the pressed
\* button is the identifier the button was rendered for, and the item it
\* fetches is that item.
C17_TokenRoundTrip ==
    InHandler =>
        /\ SubSeq(update.data, 1, Len(DRIVE_FILE_PREFIX)) = DRIVE_FILE_PREFIX
        /\ query_data = RenderedFor(update.data)
        /\ fetched_file.id = RenderedFor(update.data)

\* C18: keyboards are held by private chats only, and every edit, send and
\* chat action of drive_handler is addressed to the chat that holds the
\* pressed message: the chat id taken from the pressing user is that chat's.
C18_HandlerAddressesThePressedChat ==
    /\ \A m \in 1..Len(chat) :
           ~chat[m].reply_markup.none => chat[m].chat_id >= 0
    /\ InHandler =>
           /\ update.message_id \in 1..Len(chat)
           /\ update.chat_id = chat[update.message_id].chat_id
           /\ chat_id = chat[update.message_id].chat_id
           /\ \A i \in CallsOf(ChatOutputs \cup {"sendChatAction"}) :
                  calls[i].chat_id = chat[update.message_id].chat_id

\* two private chats hold a keyboard each, and a folder button of the second
\* one has been pressed and its message edited
C18_Witness ==
    /\ InHandler /\ Returned
    /\ update.message_id = 2
    /\ \E m \in 1..Len(chat) :
           chat[m].chat_id # update.chat_id /\ ~chat[m].reply_markup.none
    /\ CallsOf({"editMessageText"}) # {}


\* the step of the try block that raised in this invocation, "" when none did
RaisedAt ==
    IF \E i \in 1..Len(calls) : calls[i].op = "raise"
    THEN calls[CHOOSE i \in 1..Len(calls) : calls[i].op = "raise"].text[1]
    ELSE ""

\* the trace without the message ids the platform assigns to new messages
SentOps == {"sendMessage", "sendDocument"}

Outputs ==
    [i \in 1..Len(calls) |->
        IF calls[i].op \in SentOps THEN [calls[i] EXCEPT !.message_id = 0]
        ELSE calls[i]]

\* what a folder press produces, from the event and the listing answered
FolderOutputs(file, user, mid, listing) ==
    <<DriveCall("list_files", file.id)>>
    \o (IF listing.none
        THEN <<Call("editMessageText", user, mid,
                    get_locale(LanguageCode(user), "DRIVE_ERROR_DEVS_TEXT_ID"),
                    NoMarkup)>>
        ELSE <<Call("editMessageText", user, mid, file.title \o <<":">>,
                    InlineKeyboardMarkup(
                        get_files_keyboard(listing.items, 2)
                        \o (IF Len(file.parents) > 0
                               /\ file.parents[1].id # ROOT_FOLDER_ID
                            THEN <<<<InlineKeyboardButton(
                                       get_locale(LanguageCode(user),
                                                  "BACK_BUTTON_TEXT_TEXT_ID"),
                                       DRIVE_FILE_PREFIX \o file.parents[1].id)>>>>
                            ELSE <<>>))),
             PlainCall("answer")>>)

\* what a google document press produces
DocumentOutputs(file, user) ==
    <<Call("sendMessage", user, 0,
           Replace(get_locale(LanguageCode(user), "DRIVE_ERROR_GFILE_TEXT_ID"),
                   <<PLACE_HOLDER>>, file.exportLinks.pdf),
           NoMarkup),
      PlainCall("answer")>>

\* the calls of the try block when none of them raises
FileCalls(file, user) ==
    LET again == get_file(file.id)
    IN  <<DriveCall("get_file", file.id)>>
        \o (IF ~IntAccepts(again.fileSize) THEN <<>>
            ELSE IF ParseInt(again.fileSize) < SIZE_THRESHOLD
            THEN <<DriveCall("GetContentIOBuffer", again.id),
                   Call("sendChatAction", user, 0, <<"UPLOAD_DOCUMENT">>, NoMarkup),
                   Call("sendDocument", user, 0, file.title, NoMarkup)>>
            ELSE <<Call("sendMessage", user, 0,
                        Replace(get_locale(LanguageCode(user),
                                           "DRIVE_ERROR_TOO_BIG_TEXT_ID"),
                                <<PLACE_HOLDER>>, again.alternateLink),
                        NoMarkup)>>)

\* what a file press produces, from the event and the step that raised
FileOutputs(file, user, raised) ==
    LET full == FileCalls(file, user)
        at   == IF \E k \in 1..Len(full) : full[k].op = raised
                THEN CHOOSE k \in 1..Len(full) : full[k].op = raised
                ELSE Len(full) + 1
    IN  IF raised = ""
        THEN full \o <<PlainCall("answer")>>
        ELSE SubSeq(full, 1, at - 1)
             \o <<DriveCall("raise", <<raised>>),
                  DriveCall("log_error", <<"drive_handler">>),
                  PlainCall("answer")>>

\* the outputs of one press as a function of its event (token, user, message
\* id; the locale is the user's) and of the drive's answers alone
HandlerOutputs(token, user, mid, listing, raised) ==
    LET id   == Replace(token, DRIVE_FILE_PREFIX, <<>>)
        file == get_file(id)
    IN  <<DriveCall("get_file", id)>>
        \o (IF file.mimeType = FOLDER_MIME
            THEN FolderOutputs(file, user, mid, listing)
            ELSE IF file.mimeType = DOCUMENT_MIME
            THEN DocumentOutputs(file, user)
            ELSE FileOutputs(file, user, raised))

\* C16: the collaborator calls of a button press that has returned are the
\* value of one function of the press's event (token, user, message id, the
\* user's locale) and of what the drive answered in this invocation (the
\* listing or its failure, the step that raised); nothing an earlier /drive
\* or press left behind enters them.
C16_OutputsAreAFunctionOfTheEvent ==
    (InHandler /\ Returned) =>
        Outputs = HandlerOutputs(update.data, update.from_user, update.message_id,
                                 file_list, RaisedAt)

\* the second user's press has returned after the first user pressed a folder
\* of their own keyboard: the first message no longer shows the root listing
C16_Witness ==
    /\ InHandler /\ Returned
    /\ update.message_id = 2 /\ update.from_user = 2
    /\ Len(chat) >= 2
    /\ chat[1].chat_id = 1
    /\ ~chat[1].reply_markup.none
    /\ chat[1].text # get_locale(LanguageCode(1), "DRIVE_HEADER_TEXT_ID")

====
